---------------------------- MODULE Spec2Model ----------------------------
(***************************************************************************)
(* Model of src/app.py, the Streamlit legal-services assistant             *)
(* (AssistantJuridique, afficher_prestation_card, main).                   *)
(*                                                                         *)
(* Python strings are TLA+ strings (character sequences); Python lists are *)
(* sequences; a Python dict whose shape is fixed is a record, and the dict *)
(* returned by json.loads carries the set of keys it really holds ("cles") *)
(* so that a subscript on a missing key is a KeyError, as in Python.       *)
(***************************************************************************)
EXTENDS Integers, Sequences, FiniteSets, TLC

(***************************************************************************)
(* Bounds of the model.                                                    *)
(***************************************************************************)
\* a new user message is accepted while the history holds fewer entries
MaxMessages == 4
\* the same, in the conversations of SpecHistorique
MaxHistorique == 6
\* base prices explored for the price card on its own
MaxTarif == 120

(***************************************************************************)
(* Python string and list primitives.                                      *)
(***************************************************************************)
\* str.strip() with no argument removes these (ASCII) from both ends
Whitespace == {" ", "\n", "\t", "\r"}

Char(s, i) == SubSeq(s, i, i)

RECURSIVE lstrip(_)
lstrip(s) ==
    IF Len(s) > 0 /\ Char(s, 1) \in Whitespace
    THEN lstrip(SubSeq(s, 2, Len(s)))
    ELSE s

RECURSIVE rstrip(_)
rstrip(s) ==
    IF Len(s) > 0 /\ Char(s, Len(s)) \in Whitespace
    THEN rstrip(SubSeq(s, 1, Len(s) - 1))
    ELSE s

strip(s) == rstrip(lstrip(s))

startswith(s, prefix) ==
    /\ Len(s) >= Len(prefix)
    /\ SubSeq(s, 1, Len(prefix)) = prefix

\* a Python slice index: negative counts from the end, then clamped to 0..n
SliceIndex(n, i) ==
    LET j == IF i < 0 THEN n + i ELSE i
    IN  IF j < 0 THEN 0 ELSE IF j > n THEN n ELSE j

\* s[start:stop] (0-based, stop excluded)
Slice(s, start, stop) ==
    SubSeq(s, SliceIndex(Len(s), start) + 1, SliceIndex(Len(s), stop))

\* s[start:]
SliceFrom(s, start) ==
    SubSeq(s, SliceIndex(Len(s), start) + 1, Len(s))

\* sub in s
Contains(sub, s) ==
    \E i \in 1..(Len(s) + 1) :
        /\ i + Len(sub) - 1 <= Len(s)
        /\ SubSeq(s, i, i + Len(sub) - 1) = sub

Upper == "ABCDEFGHIJKLMNOPQRSTUVWXYZ"
Lower == "abcdefghijklmnopqrstuvwxyz"

LowerChar(c) ==
    IF \E i \in 1..Len(Upper) : Char(Upper, i) = c
    THEN Char(Lower, CHOOSE i \in 1..Len(Upper) : Char(Upper, i) = c)
    ELSE c

RECURSIVE lower(_)
lower(s) ==
    IF Len(s) = 0 THEN s
    ELSE LowerChar(Char(s, 1)) \o lower(SubSeq(s, 2, Len(s)))

\* str.split() with no argument: the maximal runs of non-whitespace
RECURSIVE SplitFrom(_, _, _)
SplitFrom(s, i, mot) ==
    IF i > Len(s)
    THEN (IF Len(mot) > 0 THEN <<mot>> ELSE <<>>)
    ELSE IF Char(s, i) \in Whitespace
         THEN (IF Len(mot) > 0 THEN <<mot>> ELSE <<>>) \o SplitFrom(s, i + 1, "")
         ELSE SplitFrom(s, i + 1, mot \o Char(s, i))

split(s) == SplitFrom(s, 1, "")

\* sep.join(parts)
RECURSIVE join(_, _)
join(sep, parts) ==
    IF Len(parts) = 0 THEN ""
    ELSE IF Len(parts) = 1 THEN parts[1]
    ELSE parts[1] \o sep \o join(sep, Tail(parts))

(***************************************************************************)
(* The catalog: get_prestations() and get_facteur_urgence() come from the  *)
(* module prestations.  app.py fixes their shape by the way it reads them: *)
(* an ordered dict domaine_id -> {label, prestations: {prestation_id ->    *)
(* {label, definition, tarif}}}.  An ordered dict is a sequence of entries *)
(* with unique ids; iteration (.items()) is the sequence order.            *)
(***************************************************************************)
get_prestations ==
    << [id |-> "immobilier", label |-> "Droit immobilier commercial",
        prestations |-> <<
          [id |-> "bail_commercial", label |-> "Redaction de bail commercial",
           definition |-> "Redaction d un bail commercial pour un local",
           tarif |-> 1500],
          [id |-> "litige_locataire", label |-> "Litige avec un locataire",
           definition |-> "Assistance en cas de litige sur un bail",
           tarif |-> 901] >>],
       [id |-> "famille", label |-> "Droit de la famille",
        prestations |-> <<
          [id |-> "divorce_amiable", label |-> "Divorce amiable",
           definition |-> "Procedure de divorce par consentement mutuel",
           tarif |-> 1201] >>],
       [id |-> "travail", label |-> "Droit du travail",
        prestations |-> <<
          [id |-> "licenciement", label |-> "Contestation de licenciement",
           definition |-> "Defense du salarie apres un licenciement",
           tarif |-> 800] >>],
       [id |-> "affaires", label |-> "Droit des affaires",
        prestations |-> <<
          [id |-> "creation_societe", label |-> "Creation de societe",
           definition |-> "Constitution d une societe commerciale",
           tarif |-> 1000],
          [id |-> "contrat_commercial", label |-> "Contrat commercial",
           definition |-> "Redaction d un contrat commercial",
           tarif |-> 700],
          [id |-> "cession_bail", label |-> "Cession de bail commercial",
           definition |-> "Cession d un bail",
           tarif |-> 101] >>] >>

\* get_facteur_urgence() as the fraction FacteurNum / FacteurDen = 1.5
\* ("Tarifs majores de 50%")
FacteurNum == 3
FacteurDen == 2

\* key in d, d[key] for the ordered dicts above
HasKey(d, key) == \E i \in 1..Len(d) : d[i].id = key
Lookup(d, key) == d[CHOOSE i \in 1..Len(d) : d[i].id = key]

(***************************************************************************)
(* json.loads.  The texts the completion can return in this model are the  *)
(* documents below, surrounded or not by whitespace and code fences, and   *)
(* texts that are not JSON.  json_loads decodes exactly the documents      *)
(* (JSON allows whitespace around the value); any other text of the model  *)
(* is not JSON and raises JSONDecodeError.                                 *)
(*                                                                         *)
(* The lexer of the tools rejects a grave accent inside a string: the      *)
(* model writes the fence character as an apostrophe, so Fence stands for  *)
(* the three grave accents of a Markdown code fence.                       *)
(***************************************************************************)
Fence == "'''"

CLES == {"prestations_recommandees", "questions_clarification",
         "analyse_situation", "urgence_detectee", "type_client"}

RecBail == [domaine_id |-> "immobilier", prestation_id |-> "bail_commercial",
            score_pertinence |-> 9]
RecCession == [domaine_id |-> "affaires", prestation_id |-> "cession_bail",
               score_pertinence |-> 6]
\* references that do not resolve: unknown domain, known domain with
\* a prestation of another domain
RecDomaineInconnu == [domaine_id |-> "fiscal", prestation_id |-> "bail_commercial",
                      score_pertinence |-> 5]
RecPrestationInconnue == [domaine_id |-> "famille", prestation_id |-> "bail_commercial",
                          score_pertinence |-> 4]

TxtRecBail ==
    "{\"domaine_id\":\"immobilier\",\"prestation_id\":\"bail_commercial\",\"score_pertinence\":9}"
TxtRecCession ==
    "{\"domaine_id\":\"affaires\",\"prestation_id\":\"cession_bail\",\"score_pertinence\":6}"
TxtRecDomaineInconnu ==
    "{\"domaine_id\":\"fiscal\",\"prestation_id\":\"bail_commercial\",\"score_pertinence\":5}"
TxtRecPrestationInconnue ==
    "{\"domaine_id\":\"famille\",\"prestation_id\":\"bail_commercial\",\"score_pertinence\":4}"

\* the members a document can hold: key, JSON text, decoded value
Membres ==
    [A1 |-> [cle |-> "analyse_situation",
             texte |-> "\"analyse_situation\":\"Besoin d un bail\"",
             chaine |-> "Besoin d un bail", liste |-> <<>>, recs |-> <<>>, bool |-> FALSE],
     A0 |-> [cle |-> "analyse_situation",
             texte |-> "\"analyse_situation\":\"\"",
             chaine |-> "", liste |-> <<>>, recs |-> <<>>, bool |-> FALSE],
     R0 |-> [cle |-> "prestations_recommandees",
             texte |-> "\"prestations_recommandees\":[]",
             chaine |-> "", liste |-> <<>>, recs |-> <<>>, bool |-> FALSE],
     R1 |-> [cle |-> "prestations_recommandees",
             texte |-> "\"prestations_recommandees\":[" \o TxtRecBail \o "]",
             chaine |-> "", liste |-> <<>>, recs |-> <<RecBail>>, bool |-> FALSE],
     R2 |-> [cle |-> "prestations_recommandees",
             texte |-> "\"prestations_recommandees\":[" \o TxtRecDomaineInconnu \o ","
                        \o TxtRecCession \o "," \o TxtRecPrestationInconnue \o "]",
             chaine |-> "", liste |-> <<>>,
             recs |-> <<RecDomaineInconnu, RecCession, RecPrestationInconnue>>,
             bool |-> FALSE],
     Q1 |-> [cle |-> "questions_clarification",
             texte |-> "\"questions_clarification\":[\"Depuis quand ?\",\"Quel local ?\"]",
             chaine |-> "", liste |-> <<"Depuis quand ?", "Quel local ?">>,
             recs |-> <<>>, bool |-> FALSE],
     Q0 |-> [cle |-> "questions_clarification",
             texte |-> "\"questions_clarification\":[]",
             chaine |-> "", liste |-> <<>>, recs |-> <<>>, bool |-> FALSE],
     U1 |-> [cle |-> "urgence_detectee",
             texte |-> "\"urgence_detectee\":true",
             chaine |-> "", liste |-> <<>>, recs |-> <<>>, bool |-> TRUE],
     U0 |-> [cle |-> "urgence_detectee",
             texte |-> "\"urgence_detectee\":false",
             chaine |-> "", liste |-> <<>>, recs |-> <<>>, bool |-> FALSE],
     TC |-> [cle |-> "type_client",
             texte |-> "\"type_client\":\"entreprise\"",
             chaine |-> "entreprise", liste |-> <<>>, recs |-> <<>>, bool |-> FALSE]]

\* what json.loads returns for a JSON object: the keys it holds and, for
\* each key it holds, the value (the other fields are never read: a
\* subscript on a missing key raises KeyError before)
DictVide ==
    [type |-> "dict", cles |-> {},
     prestations_recommandees |-> <<>>, questions_clarification |-> <<>>,
     analyse_situation |-> "", urgence_detectee |-> FALSE, type_client |-> ""]

\* what json.loads returns for the JSON array []
ListeVide == [DictVide EXCEPT !.type = "list"]

AvecMembre(d, m) ==
    LET e == Membres[m]
    IN  [type |-> "dict", cles |-> d.cles \cup {e.cle},
         prestations_recommandees |->
             IF e.cle = "prestations_recommandees" THEN e.recs
             ELSE d.prestations_recommandees,
         questions_clarification |->
             IF e.cle = "questions_clarification" THEN e.liste
             ELSE d.questions_clarification,
         analyse_situation |->
             IF e.cle = "analyse_situation" THEN e.chaine ELSE d.analyse_situation,
         urgence_detectee |->
             IF e.cle = "urgence_detectee" THEN e.bool ELSE d.urgence_detectee,
         type_client |->
             IF e.cle = "type_client" THEN e.chaine ELSE d.type_client]

RECURSIVE ValeurObjet(_)
ValeurObjet(ms) ==
    IF Len(ms) = 0 THEN DictVide
    ELSE AvecMembre(ValeurObjet(SubSeq(ms, 1, Len(ms) - 1)), ms[Len(ms)])

TexteObjet(ms) ==
    "{" \o join(",", [i \in 1..Len(ms) |-> Membres[ms[i]].texte]) \o "}"

\* the JSON objects of the model, as the sequences of their members
Objets ==
    { <<"A1", "R1", "Q1", "U1", "TC">>,   \* complete, urgent, one recommendation
      <<"A1", "R0", "Q1", "U0", "TC">>,   \* complete, no recommendation
      <<"A0", "R2", "Q0", "U0", "TC">>,   \* complete, dangling references
      <<"A1", "R1", "Q1", "TC">>,         \* urgence_detectee missing
      <<"R1", "Q1", "U1", "TC">>,         \* analyse_situation missing
      <<"A1", "R2", "U1", "TC">>,         \* questions_clarification missing
      <<>> }                              \* {}

JsonDocuments ==
    { [texte |-> TexteObjet(ms), valeur |-> ValeurObjet(ms)] : ms \in Objets }
    \cup { [texte |-> "[]", valeur |-> ListeVide] }

JsonTextes == { d.texte : d \in JsonDocuments }

\* texts that are not JSON: prose, and a document cut before its end
NonJson == { "Je ne peux pas repondre.", "{\"analyse_situation\":" }

\* json.loads(s): [ok |-> TRUE, valeur] or [ok |-> FALSE] for JSONDecodeError
json_loads(s) ==
    LET t == strip(s)
    IN  IF t \in JsonTextes
        THEN [ok |-> TRUE, valeur |-> (CHOOSE d \in JsonDocuments : d.texte = t).valeur]
        ELSE [ok |-> FALSE, valeur |-> DictVide]

(***************************************************************************)
(* AssistantJuridique.analyser_avec_gpt                                    *)
(***************************************************************************)
\* HistoriqueRecent keeping one message more
HistoriqueRecent6(historique) == SliceFrom(historique, -6)

\* historique[-5:], the messages that reach the prompt
HistoriqueRecent(historique) == SliceFrom(historique, -5)

\* the history block of the prompt, one "role: content\n" per message
\* (the code concatenates them; the model keeps the list of lines)
ConversationHistory(historique) ==
    LET recents == HistoriqueRecent(historique)
    IN  [i \in 1..Len(recents) |->
            recents[i].role \o ": " \o recents[i].content \o "\n"]

\* NettoyerJson cutting one character less after the tagged fence
NettoyerJsonCourt(content) ==
    LET result_text == strip(content)
    IN  IF startswith(result_text, Fence \o "json") THEN Slice(result_text, 6, -3)
        ELSE IF startswith(result_text, Fence) THEN Slice(result_text, 3, -3)
        ELSE result_text

\* "Nettoyer": strip, then cut a leading fence and the last three characters
NettoyerJson(content) ==
    LET result_text == strip(content)
    IN  IF startswith(result_text, Fence \o "json") THEN Slice(result_text, 7, -3)
        ELSE IF startswith(result_text, Fence) THEN Slice(result_text, 3, -3)
        ELSE result_text

\* the dict of the except branch
AnalyseParDefaut ==
    [type |-> "dict", cles |-> CLES,
     prestations_recommandees |-> <<>>,
     questions_clarification |-> <<"Pouvez-vous reformuler votre demande ?">>,
     analyse_situation |-> "Erreur d'analyse",
     urgence_detectee |-> FALSE,
     type_client |-> "indetermine"]

\* completion: [ok |-> FALSE] when client.chat.completions.create raises,
\* else [ok |-> TRUE, content |-> the text of the first choice].
\* Returns the dict and whether st.error showed the notice.
analyser_avec_gpt(completion) ==
    IF ~completion.ok
    THEN [resultat |-> AnalyseParDefaut, st_error |-> TRUE]
    ELSE LET parsed == json_loads(NettoyerJson(completion.content))
         IN  IF parsed.ok
             THEN [resultat |-> parsed.valeur, st_error |-> FALSE]
             ELSE [resultat |-> AnalyseParDefaut, st_error |-> TRUE]

(***************************************************************************)
(* afficher_prestation_card: the price tag of a card.  tarif_text is kept  *)
(* as its parts: the amount printed first, and the list of amounts printed *)
(* after "Normal:" (empty when the card is not urgent).                    *)
(***************************************************************************)
\* TarifUrgent rounding to the nearest integer instead of truncating
TarifUrgentArrondi(tarif) == (2 * tarif * FacteurNum + FacteurDen) \div (2 * FacteurDen)

\* int(tarif * get_facteur_urgence()): int() truncates toward zero
TarifUrgent(tarif) == (tarif * FacteurNum) \div FacteurDen

afficher_prestation_card(prestation_info, urgent) ==
    LET tarif == prestation_info.prestation.tarif
    IN  [label |-> prestation_info.prestation.label,
         domaine |-> prestation_info.domaine,
         definition |-> prestation_info.prestation.definition,
         price_class |-> IF urgent THEN "price-tag urgent-price" ELSE "price-tag",
         montant |-> IF urgent THEN TarifUrgent(tarif) ELSE tarif,
         normal |-> IF urgent THEN <<tarif>> ELSE <<>>]

(***************************************************************************)
(* AssistantJuridique.rechercher_prestations_pertinentes                   *)
(***************************************************************************)
\* the (domain, prestation) pairs in the order the two nested loops visit
RECURSIVE EntreesDe(_)
EntreesDe(domaines) ==
    IF Len(domaines) = 0 THEN <<>>
    ELSE LET d == Head(domaines)
         IN  [i \in 1..Len(d.prestations) |->
                 [domaine |-> d.label, domaine_id |-> d.id,
                  prestation_id |-> d.prestations[i].id,
                  prestation |-> d.prestations[i]]]
             \o EntreesDe(Tail(domaines))

Entrees == EntreesDe(get_prestations)

\* any(mot in texte.lower() for mot in mots_cles)
AnyMotDans(mots_cles, texte) ==
    \E i \in 1..Len(mots_cles) : Contains(mots_cles[i], lower(texte))

\* the contribution of the tokens of the query, one after the other
RECURSIVE ScoreMots(_, _)
ScoreMots(mots, e) ==
    IF Len(mots) = 0 THEN 0
    ELSE LET mot == Head(mots)
         IN  (IF Len(mot) > 3
              THEN (IF Contains(mot, lower(e.prestation.label)) THEN 4 ELSE 0)
                   + (IF Contains(mot, lower(e.prestation.definition)) THEN 2 ELSE 0)
                   + (IF Contains(mot, lower(e.domaine)) THEN 1 ELSE 0)
              ELSE 0)
             + ScoreMots(Tail(mots), e)

Score(e, query, mots_cles) ==
    (IF AnyMotDans(mots_cles, e.prestation.label) THEN 3 ELSE 0)
    + (IF AnyMotDans(mots_cles, e.prestation.definition) THEN 2 ELSE 0)
    + ScoreMots(split(lower(query)), e)

\* the loop: the entries with a score > 0, in catalog order
RECURSIVE Retenus(_, _, _)
Retenus(entrees, query, mots_cles) ==
    IF Len(entrees) = 0 THEN <<>>
    ELSE LET e == Head(entrees)
             score == Score(e, query, mots_cles)
         IN  (IF score > 0
              THEN <<[domaine |-> e.domaine, domaine_id |-> e.domaine_id,
                      prestation_id |-> e.prestation_id,
                      prestation |-> e.prestation, score |-> score]>>
              ELSE <<>>)
             \o Retenus(Tail(entrees), query, mots_cles)

\* Inserer for a sort that is not stable: an element goes before the
\* elements of the same score
RECURSIVE InsererInstable(_, _)
InsererInstable(tries, x) ==
    IF Len(tries) = 0 THEN <<x>>
    ELSE IF Head(tries).score > x.score
         THEN <<Head(tries)>> \o InsererInstable(Tail(tries), x)
         ELSE <<x>> \o tries

\* list.sort(key=score, reverse=True) is stable: an element goes after
\* every element already placed whose score is greater or equal
RECURSIVE Inserer(_, _)
Inserer(tries, x) ==
    IF Len(tries) = 0 THEN <<x>>
    ELSE IF Head(tries).score >= x.score
         THEN <<Head(tries)>> \o Inserer(Tail(tries), x)
         ELSE <<x>> \o tries

RECURSIVE TriDecroissant(_)
TriDecroissant(resultats) ==
    IF Len(resultats) = 0 THEN <<>>
    ELSE Inserer(TriDecroissant(SubSeq(resultats, 1, Len(resultats) - 1)),
                 resultats[Len(resultats)])

\* resultats[:5]
Top5(resultats) == Slice(resultats, 0, 5)

rechercher_prestations_pertinentes(query, mots_cles) ==
    Top5(TriDecroissant(Retenus(Entrees, query, mots_cles)))

(***************************************************************************)
(* AssistantJuridique.generer_questions_clarification                      *)
(*                                                                         *)
(* list(set(...)) yields the labels in the order of the set's hash table.  *)
(* The hash of a str depends on the seed the interpreter draws when the    *)
(* process starts: the order is fixed within a process and differs from    *)
(* one process to the next.  A seed is modelled by the order it gives to   *)
(* the domain labels.                                                      *)
(***************************************************************************)
RECURSIVE ListeDuSet(_, _)
ListeDuSet(ensemble, ordre) ==
    IF Len(ordre) = 0 THEN <<>>
    ELSE (IF Head(ordre) \in ensemble THEN <<Head(ordre)>> ELSE <<>>)
         \o ListeDuSet(ensemble, Tail(ordre))

generer_questions_clarification(resultats, query, ordre) ==
    IF Len(resultats) = 0
    THEN "Je n ai pas trouve de prestations correspondant exactement a votre demande."
    ELSE LET domaines_uniques ==
                 ListeDuSet({ resultats[i].domaine : i \in 1..Len(resultats) }, ordre)
         IN  IF Len(domaines_uniques) > 2
             THEN join("\n",
                       << "Pour mieux vous orienter, pouvez-vous me preciser :",
                          "- Votre situation concerne-t-elle plutot : "
                              \o join(", ", Slice(domaines_uniques, 0, 3)) \o " ?",
                          "- S agit-il d une situation urgente ?",
                          "- Etes-vous un particulier ou une entreprise ?" >>)
             ELSE join("\n",
                       << "J ai identifie quelques prestations qui pourraient vous convenir. Pour affiner :",
                          "- Pouvez-vous me donner plus de details sur votre situation ?",
                          "- Y a-t-il une urgence particuliere ?",
                          "- Avez-vous deja entame des demarches juridiques ?" >>)

(***************************************************************************)
(* State.  The session state of main, and the arguments and results of    *)
(* the functions that are exercised on their own.  A result that does not  *)
(* exist yet is the empty sequence, and <<r>> once the function returned r.*)
(***************************************************************************)
VARIABLES
    messages,               \* st.session_state.messages
    attributs,              \* which of prestations_actuelles, urgence_detectee
                            \* st.session_state holds (hasattr)
    prestations_actuelles,  \* st.session_state.prestations_actuelles
    urgence_detectee,       \* st.session_state.urgence_detectee
    evenement,              \* what triggered the last script run
    user_input,             \* the text of the last st.chat_input
    completion,             \* what the completion call of the last turn gave
    analyse,                \* what analyser_avec_gpt returned in the last turn
    conversation_history,   \* the history block of the last prompt
    st_error,               \* the last turn showed the st.error notice
    exception,              \* the exception that ended the last run, or ""
    colonne2,               \* what the last run rendered in the right column
    query,                  \* rechercher_prestations_pertinentes: query
    mots_cles,              \* rechercher_prestations_pertinentes: mots_cles
    resultats,              \* what rechercher_prestations_pertinentes returned
    ordre_hash,             \* the order the hash seed of the process gives
    appels,                 \* the last two calls of generer_questions_clarification
    tarif,                  \* afficher_prestation_card: prestation['tarif']
    urgent,                 \* afficher_prestation_card: urgent
    carte,                  \* what afficher_prestation_card displayed
    texte_json,             \* a JSON text
    reponse,                \* the same text inside a code fence
    analyse_nue,            \* analyser_avec_gpt on texte_json
    analyse_enveloppee      \* analyser_avec_gpt on reponse

vars_session == <<messages, attributs, prestations_actuelles, urgence_detectee,
                  evenement, user_input, completion, analyse,
                  conversation_history, st_error, exception, colonne2>>
vars_recherche == <<query, mots_cles, resultats, ordre_hash, appels>>
vars_prix == <<tarif, urgent, carte>>
vars_fence == <<texte_json, reponse, analyse_nue, analyse_enveloppee>>
vars == <<vars_session, vars_recherche, vars_prix, vars_fence>>

(***************************************************************************)
(* main: the right column.                                                 *)
(***************************************************************************)
\* the recommendation resolves in the catalog (the guard of the card loop)
Resolu(prestation_rec) ==
    LET prestations == get_prestations
    IN  /\ HasKey(prestations, prestation_rec.domaine_id)
        /\ HasKey(Lookup(prestations, prestation_rec.domaine_id).prestations,
                  prestation_rec.prestation_id)

CarteDe(prestation_rec, urgence) ==
    LET prestations == get_prestations
        domaine == Lookup(prestations, prestation_rec.domaine_id)
        prestation_info ==
            [domaine |-> domaine.label,
             prestation |-> Lookup(domaine.prestations, prestation_rec.prestation_id),
             score |-> prestation_rec.score_pertinence]
    IN  [rec |-> prestation_rec,
         carte |-> afficher_prestation_card(prestation_info, urgence)]

\* Cartes leaving the loop at the first reference that does not resolve
RECURSIVE CartesJusquAuPremierEchec(_, _)
CartesJusquAuPremierEchec(recs, urgence) ==
    IF Len(recs) = 0 \/ ~Resolu(Head(recs)) THEN <<>>
    ELSE <<CarteDe(Head(recs), urgence)>> \o CartesJusquAuPremierEchec(Tail(recs), urgence)

\* the loop over st.session_state.prestations_actuelles
RECURSIVE Cartes(_, _)
Cartes(recs, urgence) ==
    IF Len(recs) = 0 THEN <<>>
    ELSE (IF Resolu(Head(recs)) THEN <<CarteDe(Head(recs), urgence)>> ELSE <<>>)
         \o Cartes(Tail(recs), urgence)

\* a run that shows no recommendation (or that an exception ended before)
Colonne2Vide == [warning |-> FALSE, cartes |-> <<>>]

\* "with col2": the warning and the cards, or the static list
Colonne2(attrs, prestations, urgence_state) ==
    IF "prestations_actuelles" \in attrs /\ Len(prestations) > 0
    THEN LET urgence == IF "urgence_detectee" \in attrs THEN urgence_state ELSE FALSE
         IN  [warning |-> urgence, cartes |-> Cartes(prestations, urgence)]
    ELSE Colonne2Vide

(***************************************************************************)
(* main: one user turn, and the reset button.                              *)
(***************************************************************************)
\* the text of the assistant message
AssistantResponse(a) ==
    LET resume ==
            IF a.analyse_situation # ""
            THEN <<"**Analyse de votre situation :** " \o a.analyse_situation>>
            ELSE <<>>
        questions ==
            IF Len(a.questions_clarification) > 0
            THEN <<"**Questions pour mieux vous aider :**">> \o
                 [i \in 1..Len(a.questions_clarification) |->
                     ToString(i) \o ". " \o a.questions_clarification[i]]
            ELSE <<>>
    IN  join("\n\n", resume \o questions)

UserInputs == {"J ai besoin d un bail commercial", "C est urgent"}

DocComplet == TexteObjet(<<"A1", "R1", "Q1", "U1", "TC">>)

\* what the completion call can give: a transport failure, a text that is
\* not JSON, a JSON document, a JSON document in a code fence
Completions ==
    { [ok |-> FALSE, content |-> ""] }
    \cup { [ok |-> TRUE, content |-> c] : c \in NonJson }
    \cup { [ok |-> TRUE, content |-> c] : c \in JsonTextes }
    \cup { [ok |-> TRUE, content |-> Fence \o "json\n" \o c \o "\n" \o Fence] :
             c \in { DocComplet, TexteObjet(<<"R1", "Q1", "U1", "TC">>) } }

\* the completions of the long conversations: a transport failure, a
\* complete document, and the empty object
CompletionsLongues ==
    { [ok |-> FALSE, content |-> ""],
      [ok |-> TRUE, content |-> DocComplet],
      [ok |-> TRUE, content |-> "{}"] }

\* analyser_avec_gpt on each completion of the model
Analyses == [c \in Completions |-> analyser_avec_gpt(c)]

ReposSession ==
    /\ messages = <<>>
    /\ attributs = {}
    /\ prestations_actuelles = <<>>
    /\ urgence_detectee = FALSE
    /\ evenement = "init"
    /\ user_input = ""
    /\ completion = [ok |-> FALSE, content |-> ""]
    /\ analyse = DictVide
    /\ conversation_history = <<>>
    /\ st_error = FALSE
    /\ exception = ""
    /\ colonne2 = Colonne2Vide

ReposRecherche ==
    /\ query = ""
    /\ mots_cles = <<>>
    /\ resultats = <<>>
    /\ ordre_hash = <<>>
    /\ appels = <<>>

ReposPrix ==
    /\ tarif = 0
    /\ urgent = FALSE
    /\ carte = <<>>

ReposFence ==
    /\ texte_json = ""
    /\ reponse = ""
    /\ analyse_nue = <<>>
    /\ analyse_enveloppee = <<>>

Init == ReposSession /\ ReposRecherche /\ ReposPrix /\ ReposFence

\* StockerPrestations without its test: an empty list erases the stored one
StockerToujours(a) ==
    /\ prestations_actuelles' = a.prestations_recommandees
    /\ urgence_detectee' =
           (IF "urgence_detectee" \in a.cles THEN a.urgence_detectee ELSE FALSE)
    /\ attributs' = attributs \cup {"prestations_actuelles", "urgence_detectee"}

\* the recommendations of the turn replace the stored ones when there are any
StockerPrestations(a) ==
    IF Len(a.prestations_recommandees) > 0
    THEN /\ prestations_actuelles' = a.prestations_recommandees
         /\ urgence_detectee' =
                (IF "urgence_detectee" \in a.cles THEN a.urgence_detectee ELSE FALSE)
         /\ attributs' = attributs \cup {"prestations_actuelles", "urgence_detectee"}
    ELSE UNCHANGED <<prestations_actuelles, urgence_detectee, attributs>>

\* the history as the turn leaves it: the user message, and the assistant
\* message when the turn reaches the line that appends it
ApresTour(avec_user, a, complet) ==
    IF complet
    THEN Append(avec_user, [role |-> "assistant", content |-> AssistantResponse(a)])
    ELSE avec_user

\* "if user_input:" -- one user turn, up to st.rerun() and the run it starts
NouveauMessage(texte, c) ==
    LET avec_user == Append(messages, [role |-> "user", content |-> texte])
        r == Analyses[c]
        a == r.resultat
    IN  /\ evenement' = "message"
        /\ user_input' = texte
        /\ completion' = c
        /\ analyse' = a
        /\ conversation_history' = ConversationHistory(avec_user)
        /\ st_error' = r.st_error
        /\ IF a.type # "dict"
           THEN \* analyse["analyse_situation"] on a list
                /\ exception' = "TypeError"
                /\ messages' = ApresTour(avec_user, a, FALSE)
                /\ colonne2' = Colonne2Vide
                /\ UNCHANGED <<prestations_actuelles, urgence_detectee, attributs>>
           ELSE IF "analyse_situation" \notin a.cles
                   \/ "prestations_recommandees" \notin a.cles
           THEN /\ exception' = "KeyError"
                /\ messages' = ApresTour(avec_user, a, FALSE)
                /\ colonne2' = Colonne2Vide
                /\ UNCHANGED <<prestations_actuelles, urgence_detectee, attributs>>
           ELSE IF "questions_clarification" \notin a.cles
           THEN /\ StockerPrestations(a)
                /\ exception' = "KeyError"
                /\ messages' = ApresTour(avec_user, a, FALSE)
                /\ colonne2' = Colonne2Vide
           ELSE /\ StockerPrestations(a)
                /\ exception' = ""
                /\ messages' = ApresTour(avec_user, a, TRUE)
                /\ colonne2' =
                       Colonne2(attributs', prestations_actuelles', urgence_detectee')
        /\ UNCHANGED <<vars_recherche, vars_prix, vars_fence>>

\* what the button assigns
Reinitialiser ==
    /\ messages' = <<>>
    /\ UNCHANGED <<attributs, prestations_actuelles, urgence_detectee>>

\* the sidebar button "Nouvelle conversation", st.rerun() and the run it starts
NouvelleConversation ==
    /\ Reinitialiser
    /\ evenement' = "reset"
    /\ exception' = ""
    /\ colonne2' = Colonne2(attributs', prestations_actuelles', urgence_detectee')
    /\ UNCHANGED <<user_input, completion, analyse, conversation_history, st_error>>
    /\ UNCHANGED <<vars_recherche, vars_prix, vars_fence>>

Message ==
    \E texte \in UserInputs, c \in Completions :
        /\ Len(messages) < MaxMessages
        /\ NouveauMessage(texte, c)

MessageLong ==
    \E texte \in UserInputs, c \in CompletionsLongues :
        /\ Len(messages) < MaxHistorique
        /\ NouveauMessage(texte, c)

Next ==
    \/ Message
    \/ NouvelleConversation

Spec == Init /\ [][Next]_vars

\* the same program in conversations long enough for the prompt to drop
\* the oldest messages
NextHistorique ==
    \/ MessageLong
    \/ NouvelleConversation

SpecHistorique == Init /\ [][NextHistorique]_vars

(***************************************************************************)
(* rechercher_prestations_pertinentes on its own: a query and a keyword    *)
(* list are drawn and ranked.                                              *)
(***************************************************************************)
Queries ==
    { "droit", "J ai besoin d un bail commercial", "bail bail", "un de la",
      "divorce", "Licenciement ABUSIF", "societe commerciale" }

\* keyword lists, in the order of the vocabulary of extraire_mots_cles
MotsClesPossibles ==
    { <<>>, <<"bail">>, <<"commercial">>, <<"divorce">>, <<"bail", "commercial">>,
      <<"bail", "divorce">>, <<"commercial", "divorce">>,
      <<"bail", "commercial", "divorce">> }

InitRecherche ==
    /\ ReposSession /\ ReposPrix /\ ReposFence
    /\ query \in Queries
    /\ mots_cles \in MotsClesPossibles
    /\ resultats = <<>>
    /\ ordre_hash = <<>>
    /\ appels = <<>>

Rechercher ==
    /\ resultats = <<>>
    /\ resultats' = <<rechercher_prestations_pertinentes(query, mots_cles)>>
    /\ UNCHANGED <<query, mots_cles, ordre_hash, appels>>
    /\ UNCHANGED <<vars_session, vars_prix, vars_fence>>

NextRecherche == Rechercher

SpecRecherche == InitRecherche /\ [][NextRecherche]_vars

(***************************************************************************)
(* generer_questions_clarification on its own, on the matches the ranker   *)
(* returns; the server process may restart between two calls (the          *)
(* interpreter then draws another hash seed).                              *)
(***************************************************************************)
\* the orders three hash seeds give to the domain labels
OrdresHash ==
    { << "Droit immobilier commercial", "Droit de la famille",
         "Droit du travail", "Droit des affaires" >>,
      << "Droit des affaires", "Droit du travail",
         "Droit de la famille", "Droit immobilier commercial" >>,
      << "Droit de la famille", "Droit immobilier commercial",
         "Droit des affaires", "Droit du travail" >> }

InitClarification ==
    /\ ReposSession /\ ReposPrix /\ ReposFence
    /\ query \in Queries
    /\ mots_cles \in MotsClesPossibles
    /\ resultats = <<rechercher_prestations_pertinentes(query, mots_cles)>>
    /\ ordre_hash \in OrdresHash
    /\ appels = <<>>

Clarifier ==
    /\ Len(resultats) = 1
    /\ LET appel ==
               [resultats |-> resultats[1],
                texte |-> generer_questions_clarification(resultats[1], query, ordre_hash)]
       IN  appels' = IF Len(appels) < 2 THEN Append(appels, appel)
                     ELSE <<appels[2], appel>>
    /\ UNCHANGED <<query, mots_cles, resultats, ordre_hash>>
    /\ UNCHANGED <<vars_session, vars_prix, vars_fence>>

Redemarrer ==
    /\ ordre_hash' \in OrdresHash \ {ordre_hash}
    /\ UNCHANGED <<query, mots_cles, resultats, appels>>
    /\ UNCHANGED <<vars_session, vars_prix, vars_fence>>

NextClarification ==
    \/ Clarifier
    \/ Redemarrer

SpecClarification == InitClarification /\ [][NextClarification]_vars

(***************************************************************************)
(* afficher_prestation_card on its own.                                    *)
(***************************************************************************)
InitPrix ==
    /\ ReposSession /\ ReposRecherche /\ ReposFence
    /\ tarif \in 0..MaxTarif
    /\ urgent \in BOOLEAN
    /\ carte = <<>>

AfficherCarte ==
    /\ carte = <<>>
    /\ carte' =
           <<afficher_prestation_card(
                 [domaine |-> "Droit des affaires",
                  prestation |-> [label |-> "Contrat commercial",
                                  definition |-> "Redaction d un contrat commercial",
                                  tarif |-> tarif],
                  score |-> 0],
                 urgent)>>
    /\ UNCHANGED <<tarif, urgent>>
    /\ UNCHANGED <<vars_session, vars_recherche, vars_fence>>

NextPrix == AfficherCarte

SpecPrix == InitPrix /\ [][NextPrix]_vars

(***************************************************************************)
(* analyser_avec_gpt on a JSON text and on the same text in a code fence.  *)
(***************************************************************************)
Ouvertures == { Fence \o "json", Fence }
Separateurs == { "", "\n" }
BlancsAvant == { "", " ", "\n" }
BlancsApres == { "", "\n", " \n" }

InitFence ==
    /\ ReposSession /\ ReposRecherche /\ ReposPrix
    /\ texte_json \in JsonTextes
    /\ \E ouverture \in Ouvertures, sep \in Separateurs,
          avant \in BlancsAvant, apres \in BlancsApres :
          reponse = avant \o ouverture \o sep \o texte_json \o sep \o Fence \o apres
    /\ analyse_nue = <<>>
    /\ analyse_enveloppee = <<>>

AnalyserNu ==
    /\ analyse_nue = <<>>
    /\ analyse_nue' = <<analyser_avec_gpt([ok |-> TRUE, content |-> texte_json])>>
    /\ UNCHANGED <<texte_json, reponse, analyse_enveloppee>>
    /\ UNCHANGED <<vars_session, vars_recherche, vars_prix>>

AnalyserEnveloppe ==
    /\ analyse_enveloppee = <<>>
    /\ analyse_enveloppee' = <<analyser_avec_gpt([ok |-> TRUE, content |-> reponse])>>
    /\ UNCHANGED <<texte_json, reponse, analyse_nue>>
    /\ UNCHANGED <<vars_session, vars_recherche, vars_prix>>

NextFence ==
    \/ AnalyserNu
    \/ AnalyserEnveloppe

SpecFence == InitFence /\ [][NextFence]_vars

(***************************************************************************)
(* Properties.                                                             *)
(***************************************************************************)
\* the dict is an AnalysisResult: a JSON object holding the five keys
EstAnalysisResult(a) == a.type = "dict" /\ a.cles = CLES

\* C1: a turn whose AnalysisResult has no recommendation leaves
\* prestations_actuelles and urgence_detectee as they were; a turn whose
\* AnalysisResult has some stores that list and that result's urgence_detectee.
C1_TourStockeOuConserve ==
    [][ (evenement' = "message" /\ EstAnalysisResult(analyse'))
        => IF Len(analyse'.prestations_recommandees) = 0
           THEN UNCHANGED <<prestations_actuelles, urgence_detectee, attributs>>
           ELSE /\ prestations_actuelles' = analyse'.prestations_recommandees
                /\ urgence_detectee' = analyse'.urgence_detectee
                /\ {"prestations_actuelles", "urgence_detectee"} \subseteq attributs'
      ]_vars

\* C1, its case: a turn with no recommendation has kept the urgent
\* recommendations of an earlier turn
C1_Witness ==
    /\ evenement = "message"
    /\ EstAnalysisResult(analyse)
    /\ Len(analyse.prestations_recommandees) = 0
    /\ "prestations_actuelles" \in attributs
    /\ prestations_actuelles = <<RecBail>>
    /\ urgence_detectee

\* C2: after the reset the history is empty, there are no current
\* recommendations and the urgency flag is false.
C2_ResetVideTout ==
    evenement = "reset"
    => /\ messages = <<>>
       /\ "prestations_actuelles" \notin attributs
       /\ ~("urgence_detectee" \in attributs /\ urgence_detectee)

\* the contents that are a JSON object of the output schema, bare or fenced
ContenusConformes ==
    UNION { { t, Fence \o "json\n" \o t \o "\n" \o Fence } :
            t \in { TexteObjet(ms) : ms \in { o \in Objets : ValeurObjet(o).cles = CLES } } }

\* the completion call failed, or gave a text that is not JSON, or JSON
\* that is not an object holding the five keys
EchecCompletion(c) == ~c.ok \/ c.content \notin ContenusConformes

\* C3: on every failure of the completion (transport, not JSON, not the
\* schema, keys missing) the turn gets the safe default and no exception
\* ends the turn.
C3_EchecDonneDefaut ==
    (evenement = "message" /\ EchecCompletion(completion))
    => /\ analyse = AnalyseParDefaut
       /\ exception = ""

\* C4: a JSON text in a code fence (tagged json or not, whitespace around
\* the whole response) gives the same AnalysisResult as the bare text.
C4_FenceMemeResultat ==
    (Len(analyse_nue) = 1 /\ Len(analyse_enveloppee) = 1)
    => analyse_enveloppee[1].resultat = analyse_nue[1].resultat

\* C4, its case: a fenced response with whitespace before it was analysed
\* and gave the recommendation of the document
C4_Witness ==
    /\ Len(analyse_nue) = 1
    /\ Len(analyse_enveloppee) = 1
    /\ startswith(reponse, "\n" \o Fence \o "json\n")
    /\ analyse_enveloppee[1].resultat.prestations_recommandees = <<RecBail>>
    /\ ~analyse_enveloppee[1].st_error

\* the place of a match in the catalog's enumeration
IndexEntree(r) ==
    CHOOSE i \in 1..Len(Entrees) :
        /\ Entrees[i].domaine_id = r.domaine_id
        /\ Entrees[i].prestation_id = r.prestation_id

\* x is ranked before y: a greater score, or the same and earlier in the catalog
Avant(sx, ix, sy, iy) == sx > sy \/ (sx = sy /\ ix < iy)

\* C5: the result is the first 5 at most of the entries with a score > 0,
\* by decreasing score, equal scores in catalog order: at most 5 entries,
\* no zero score, scores weakly decreasing.
C5_Top5Stable ==
    Len(resultats) = 1 =>
        LET r == resultats[1]
            sc == [i \in 1..Len(Entrees) |-> Score(Entrees[i], query, mots_cles)]
            positifs == { i \in 1..Len(Entrees) : sc[i] > 0 }
            idx == [k \in 1..Len(r) |-> IndexEntree(r[k])]
            pris == { idx[k] : k \in 1..Len(r) }
        IN  /\ Len(r) <= 5
            /\ Len(r) = IF Cardinality(positifs) < 5 THEN Cardinality(positifs) ELSE 5
            /\ \A k \in 1..Len(r) :
                   /\ idx[k] \in positifs
                   /\ r[k].score = sc[idx[k]]
                   /\ r[k].score > 0
                   /\ r[k].prestation = Entrees[idx[k]].prestation
                   /\ r[k].domaine = Entrees[idx[k]].domaine
            /\ \A k \in 1..Len(r), l \in 1..Len(r) :
                   k < l => /\ r[k].score >= r[l].score
                            /\ Avant(r[k].score, idx[k], r[l].score, idx[l])
            /\ \A i \in positifs \ pris : \A k \in 1..Len(r) :
                   Avant(r[k].score, idx[k], sc[i], i)

\* C5, its case: more than 5 entries score, the result holds 5 and two
\* neighbours of it have the same score
C5_Witness ==
    /\ Len(resultats) = 1
    /\ Cardinality({ i \in 1..Len(Entrees) :
                         Score(Entrees[i], query, mots_cles) > 0 }) > 5
    /\ Len(resultats[1]) = 5
    /\ \E k \in 1..4 : resultats[1][k].score = resultats[1][k + 1].score
    /\ \E k \in 1..4 : resultats[1][k].score > resultats[1][k + 1].score

\* C6: a card that is not urgent shows the tarif; an urgent card shows the
\* product of the tarif and the factor truncated toward zero (100 -> 150,
\* 101 -> 151) and the tarif itself as the normal price.
C6_PrixTronque ==
    Len(carte) = 1 =>
        LET c == carte[1]
        IN  /\ ~urgent => (c.montant = tarif /\ c.normal = <<>>)
            /\ urgent =>
                   /\ c.montant * FacteurDen <= tarif * FacteurNum
                   /\ tarif * FacteurNum < (c.montant + 1) * FacteurDen
                   /\ c.normal = <<tarif>>
            /\ (urgent /\ tarif = 100) => c.montant = 150
            /\ (urgent /\ tarif = 101) => c.montant = 151

\* C6, its case: the urgent card of a tarif whose product is not an integer
C6_Witness ==
    /\ Len(carte) = 1
    /\ urgent
    /\ tarif = 101
    /\ carte[1].montant = 151
    /\ carte[1].normal = <<101>>

\* the reference names a domain of the catalog and a prestation of that domain
Resoluble(rec) ==
    \E i \in 1..Len(get_prestations) :
        /\ get_prestations[i].id = rec.domaine_id
        /\ \E j \in 1..Len(get_prestations[i].prestations) :
               get_prestations[i].prestations[j].id = rec.prestation_id

\* C7: a run that renders the stored recommendations renders, in order,
\* exactly those that resolve in the catalog, each with its own
\* prestation; the others are skipped and the run ends without exception.
C7_RendLesResolubles ==
    (exception = "" /\ "prestations_actuelles" \in attributs
        /\ evenement \in {"message", "reset"})
    => /\ [k \in 1..Len(colonne2.cartes) |-> colonne2.cartes[k].rec]
              = SelectSeq(prestations_actuelles, Resoluble)
       /\ \A k \in 1..Len(colonne2.cartes) :
              \E i \in 1..Len(Entrees) :
                  /\ Entrees[i].domaine_id = colonne2.cartes[k].rec.domaine_id
                  /\ Entrees[i].prestation_id = colonne2.cartes[k].rec.prestation_id
                  /\ Entrees[i].prestation.label = colonne2.cartes[k].carte.label
                  /\ Entrees[i].domaine = colonne2.cartes[k].carte.domaine

\* C7, its case: the stored list holds a reference to an unknown domain,
\* one that resolves and one to an unknown prestation of a known domain;
\* the run rendered the one card
C7_Witness ==
    /\ exception = ""
    /\ prestations_actuelles = <<RecDomaineInconnu, RecCession, RecPrestationInconnue>>
    /\ Len(colonne2.cartes) = 1
    /\ colonne2.cartes[1].rec = RecCession
    /\ colonne2.cartes[1].carte.label = "Cession de bail commercial"

\* C8: two calls of generer_questions_clarification with the same matches
\* return the same text.
C8_MemeEntreeMemeTexte ==
    \A i \in 1..Len(appels), j \in 1..Len(appels) :
        appels[i].resultats = appels[j].resultats => appels[i].texte = appels[j].texte

\* C9: the history is user, assistant, user, assistant, ... and of even
\* length: no user message is left without its assistant reply.
C9_HistoriqueAlterne ==
    /\ Len(messages) % 2 = 0
    /\ \A i \in 1..Len(messages) :
           messages[i].role = IF i % 2 = 1 THEN "user" ELSE "assistant"

\* the history as analyser_avec_gpt received it in the last turn
HistoriqueDuTour ==
    IF exception = "" THEN SubSeq(messages, 1, Len(messages) - 1) ELSE messages

Ligne(m) == m.role \o ": " \o m.content \o "\n"

\* C10: the history block of the prompt is the last min(5, n) entries, in
\* order, of the history once the user message of the turn is appended;
\* it never holds more than 5 entries and its last one is that user message.
C10_CinqDerniers ==
    evenement = "message" =>
        LET h == HistoriqueDuTour
            n == Len(h)
            k == IF n < 5 THEN n ELSE 5
        IN  /\ Len(conversation_history) = k
            /\ Len(conversation_history) <= 5
            /\ \A i \in 1..k : conversation_history[i] = Ligne(h[n - k + i])
            /\ h[n] = [role |-> "user", content |-> user_input]
            /\ conversation_history[k] = "user: " \o user_input \o "\n"

\* C10, its case: the history held more than 5 entries when the prompt
\* was built, so the oldest did not reach it
C10_Witness ==
    /\ evenement = "message"
    /\ Len(HistoriqueDuTour) > 5
    /\ Len(conversation_history) = 5
    /\ conversation_history[1] # Ligne(messages[1])

=============================================================================
